---- MODULE Spec2Model ----
(***************************************************************************)
(* Asynchronous TTS job engine of services/chatterbox: the TaskManager     *)
(* store (task_manager.py) and the chunked synthesis driver                *)
(* generate_tts_async (async_tts.py).                                      *)
(*                                                                         *)
(* The specifications share the variables:                                 *)
(*   Spec         the running service: jobs are submitted, each driver     *)
(*                runs on the event loop between its suspension points,    *)
(*                callers remove jobs, worker-pool threads finish on       *)
(*                their own;                                               *)
(*   FairSpec     Spec with the fairness the event loop and the worker     *)
(*                pool give;                                               *)
(*   ReaperSpec   Spec with a clock and the cleanup cycle;                 *)
(*   StoreSpec    the TaskManager alone, its public methods called in any  *)
(*                order with arguments drawn from small sets, a clock and  *)
(*                the cleanup cycle;                                       *)
(*   MutatorSpec  the five mutators and remove_task called in any order;   *)
(*   PollSpec     Spec with callers that read records with get_task and    *)
(*                get_all_tasks and keep what they got;                    *)
(*   RemoveSpec   Spec with what each caller's remove_task found written   *)
(*                down;                                                    *)
(*   LoopSpec     ReaperSpec with the cleanup loop's position and its      *)
(*                cancellation at shutdown;                                *)
(*   LoopErrSpec  LoopSpec with cleanup cycles that raise;                 *)
(*   UnattendedSpec, FairUnattendedSpec                                    *)
(*                the service with no caller removing jobs, a clock and    *)
(*                the cleanup cycle, without and with fairness;            *)
(*   RaceSpec     RemoveSpec with a clock and the cleanup cycle;           *)
(*   ShutdownSpec the service up to and through shutdown();                *)
(*   StartSpec    the cleanup loop started by the constructor, cancelled   *)
(*                and started again by ensure_cleanup_task_started.        *)
(***************************************************************************)
EXTENDS Integers, Sequences, FiniteSets, TLC

\* ---------------------------------------------------------------- bounds
\* Number of jobs ever created (uuid4 ids are never reused).
MaxTasks == 2
\* Largest number of text chunks the chunker returns.
MaxChunks == 2
\* Last value of the clock (hours).
MaxTime == 2
\* TaskManager(max_concurrent_tasks=...): the admission ceiling (default 3).
max_concurrent_tasks == 1
\* TaskManager(task_timeout_hours=...): the retention window (default 24).
task_timeout_hours == 1
\* Number of times the cleanup loop is started again after it has stopped.
MaxRestarts == 2

TaskIds == 1..MaxTasks

\* Optional[str] = None
None == "None"

\* TaskStatus = Literal[...]
TaskStatus == {"queued", "processing", "completed", "failed", "cancelled"}

Min(a, b) == IF a <= b THEN a ELSE b
Max(a, b) == IF a >= b THEN a ELSE b

\* progress is a float; the model stores it in units of 1/Scale percent, Scale
\* the least common multiple of 1..MaxChunks, so that 15 + (i/N)*65 is exact.
RECURSIVE Gcd(_, _)
Gcd(a, b) == IF b = 0 THEN a ELSE Gcd(b, a % b)
RECURSIVE LcmUpTo(_)
LcmUpTo(n) == IF n <= 1 THEN 1 ELSE (LcmUpTo(n - 1) * n) \div Gcd(LcmUpTo(n - 1), n)
Scale == LcmUpTo(MaxChunks)
Pct(p) == p * Scale

\* _save_result_file: output_path / "async_tts_{task_id[:8]}_{timestamp}.{fmt}";
\* one file name per job (distinct uuid prefixes).
PathOf(id) == "async_tts_" \o ToString(id)

\* ------------------------------------------------- TaskManager operations
\* Each takes the registry (self.tasks) and returns the registry after the call.

\* TTSTask(...) as built by create_task.  Of the fields that never change after
\* creation (task_id, created_at, request_data, output_format) only the id is
\* kept, as the key of the registry.
NewTask(t_now) ==
    [status |-> "queued", progress |-> Pct(0), current_stage |-> "Task created",
     updated_at |-> t_now,
     result_path |-> None, error_message |-> None,
     total_chunks |-> 0, completed_chunks |-> 0]

\* Faulty variant of create_task: the new record replaces the registry.
create_task_alone(ts, id, t_now) == (id :> NewTask(t_now))

create_task(ts, id, t_now) == ts @@ (id :> NewTask(t_now))

\* Faulty variant of update_task_progress: a record is made for an unknown id.
update_task_progress_upsert(ts, id, progress, stage, status, t_now) ==
    LET all == IF id \in DOMAIN ts THEN ts ELSE ts @@ (id :> NewTask(t_now))
    IN  [all EXCEPT ![id] =
            [@ EXCEPT !.progress = Min(Pct(100), Max(Pct(0), progress)),
                      !.current_stage = stage,
                      !.updated_at = t_now,
                      !.status = IF status # None THEN status ELSE @]]

\* Faulty variant of update_task_progress: the progress is stored as passed.
update_task_progress_unclamped(ts, id, progress, stage, status, t_now) ==
    IF id \in DOMAIN ts
    THEN [ts EXCEPT ![id] =
            [@ EXCEPT !.progress = progress,
                      !.current_stage = stage,
                      !.updated_at = t_now,
                      !.status = IF status # None THEN status ELSE @]]
    ELSE ts

update_task_progress(ts, id, progress, stage, status, t_now) ==
    IF id \in DOMAIN ts
    THEN [ts EXCEPT ![id] =
            [@ EXCEPT !.progress = Min(Pct(100), Max(Pct(0), progress)),
                      !.current_stage = stage,
                      !.updated_at = t_now,
                      !.status = IF status # None THEN status ELSE @]]
    ELSE ts

\* Faulty variant of set_task_completed: the result path is not stored.
set_task_completed_without_path(ts, id, result_path, t_now) ==
    IF id \in DOMAIN ts
    THEN [ts EXCEPT ![id] =
            [@ EXCEPT !.status = "completed",
                      !.progress = Pct(100),
                      !.current_stage = "Completed",
                      !.updated_at = t_now]]
    ELSE ts

set_task_completed(ts, id, result_path, t_now) ==
    IF id \in DOMAIN ts
    THEN [ts EXCEPT ![id] =
            [@ EXCEPT !.status = "completed",
                      !.progress = Pct(100),
                      !.current_stage = "Completed",
                      !.result_path = result_path,
                      !.updated_at = t_now]]
    ELSE ts

\* Faulty variant of set_task_failed: the progress is reset.
set_task_failed_resets_progress(ts, id, error_message, t_now) ==
    IF id \in DOMAIN ts
    THEN [ts EXCEPT ![id] =
            [@ EXCEPT !.status = "failed",
                      !.progress = Pct(0),
                      !.current_stage = "Failed",
                      !.error_message = error_message,
                      !.updated_at = t_now]]
    ELSE ts

\* Faulty variant of set_task_failed: the error message is not stored.
set_task_failed_without_message(ts, id, error_message, t_now) ==
    IF id \in DOMAIN ts
    THEN [ts EXCEPT ![id] =
            [@ EXCEPT !.status = "failed",
                      !.current_stage = "Failed",
                      !.updated_at = t_now]]
    ELSE ts

\* Faulty variant of set_task_failed: the status is left as it was.
set_task_failed_keeps_status(ts, id, error_message, t_now) ==
    IF id \in DOMAIN ts
    THEN [ts EXCEPT ![id] =
            [@ EXCEPT !.current_stage = "Failed",
                      !.error_message = error_message,
                      !.updated_at = t_now]]
    ELSE ts

set_task_failed(ts, id, error_message, t_now) ==
    IF id \in DOMAIN ts
    THEN [ts EXCEPT ![id] =
            [@ EXCEPT !.status = "failed",
                      !.current_stage = "Failed",
                      !.error_message = error_message,
                      !.updated_at = t_now]]
    ELSE ts

\* Faulty variant of set_task_chunks: a record is made for an unknown id
\* (self.tasks as a defaultdict).
set_task_chunks_upsert(ts, id, total_chunks) ==
    LET all == IF id \in DOMAIN ts THEN ts ELSE ts @@ (id :> NewTask(0))
    IN  [all EXCEPT ![id] = [@ EXCEPT !.total_chunks = total_chunks]]

\* Faulty variant of set_task_chunks: the count is not stored.
set_task_chunks_not_stored(ts, id, total_chunks) == ts

set_task_chunks(ts, id, total_chunks) ==
    IF id \in DOMAIN ts
    THEN [ts EXCEPT ![id] = [@ EXCEPT !.total_chunks = total_chunks]]
    ELSE ts

increment_completed_chunks(ts, id) ==
    IF id \in DOMAIN ts
    THEN [ts EXCEPT ![id] = [@ EXCEPT !.completed_chunks = @ + 1]]
    ELSE ts

\* Faulty variant of pop_task: the record is read and left in the registry.
pop_task_keeps(ts, id) == ts

\* self.tasks.pop(task_id, None): the registry without id.
pop_task(ts, id) == [k \in DOMAIN ts \ {id} |-> ts[k]]

get_running_task_count(ts) ==
    Cardinality({id \in DOMAIN ts : ts[id].status = "processing"})

\* Faulty variant of can_start_new_task: a count at the ceiling still admits.
can_start_new_task_inclusive(ts) == get_running_task_count(ts) <= max_concurrent_tasks

can_start_new_task(ts) == get_running_task_count(ts) < max_concurrent_tasks

\* self._running_tasks[task_id] = asyncio_task
register_running_task(registry, id) == registry \cup {id}

\* self._running_tasks.pop(task_id, None)
unregister_running_task(registry, id) == registry \ {id}

\* ------------------------------------------------------------------ state
VARIABLES
    tasks,          \* self.tasks: id -> TTSTask
    next_id,        \* ids handed out so far (the next uuid is next_id + 1)
    running_tasks,  \* self._running_tasks: ids with a registered driver handle
    now,            \* datetime.now(), in hours
    disk,           \* result files that exist on disk (file names)
    pc,             \* per id, where its driver is
    chunks,         \* per id, len(text_chunks) of its driver
    idx,            \* per id, the loop index i of its driver
    must_cancel,    \* per id, cancel() was called on the driver and not delivered yet
    pool,           \* per id, the worker-pool call of its driver
    rm,             \* per id, where the remove_task call that popped it is, and
                    \* whether a caller or a cleanup cycle made it
    rm_task,        \* per id popped, the local `task` of that remove_task call
                    \* (the fields read after the pop: status, result_path)
    cleanup_todo,   \* what is left of tasks_to_remove in a cleanup cycle that awaits
    synth_calls,    \* per id, the sync_synthesize calls its driver handed to the pool
                    \* (no longer kept once the driver was cancelled: its job is gone)
    missed,         \* per id, a mutator call for id found no record (`if task_id in
                    \* self.tasks` was false)
    held,           \* what a caller got from its last get_task or get_all_tasks:
                    \* per id returned, the field values the TTSTask had at the call
    rm_found,       \* per id, what the last caller's remove_task(id) found at
                    \* `if not task: return False`: "none" (no call), "yes", "no"
    reaper,         \* where _cleanup_loop is: "sleeping", "cancel_requested"
                    \* (cancel() was called on it), "stopped"
    segments,       \* per job, the driver's local all_audio_segments_np: the
                    \* indices of the chunks whose waveform was appended, in order
    shutdown,       \* where shutdown() is: "none" (not called), "awaiting_reaper",
                    \* "awaiting_drivers", "returned"
    old_loops       \* where the _cleanup_loop tasks are that self._cleanup_task
                    \* referred to before the present one, oldest first

vars == <<tasks, next_id, running_tasks, now, disk, pc, chunks, idx,
          must_cancel, pool, rm, rm_task, cleanup_todo, synth_calls, missed, held,
          rm_found, reaper, segments, shutdown, old_loops>>

\* asyncio.Task.done(): returned, returned after failing, or cancelled.
Done == {"returned", "failed", "cancelled"}

\* Lines 71-79: the constructor starts the cleanup loop if an event loop is
\* running, and leaves self._cleanup_task None otherwise.
start_cleanup_task(loop_running) == IF loop_running THEN "sleeping" ELSE "none"

\* The state after construction, but for the cleanup loop.
InitStore ==
    /\ tasks = <<>>
    /\ next_id = 0
    /\ running_tasks = {}
    /\ now = 0
    /\ disk = {}
    /\ pc = [id \in TaskIds |-> "none"]
    /\ chunks = [id \in TaskIds |-> 0]
    /\ idx = [id \in TaskIds |-> 0]
    /\ must_cancel = [id \in TaskIds |-> FALSE]
    /\ pool = [id \in TaskIds |-> "idle"]
    /\ rm = [id \in TaskIds |-> "none"]
    /\ rm_task = <<>>
    /\ cleanup_todo = <<>>
    /\ synth_calls = [id \in TaskIds |-> 0]
    /\ missed = [id \in TaskIds |-> FALSE]
    /\ held = <<>>
    /\ rm_found = [id \in TaskIds |-> "none"]
    /\ segments = [id \in TaskIds |-> <<>>]
    /\ shutdown = "none"
    /\ old_loops = <<>>

\* The TaskManager constructed while the event loop is running.
Init ==
    /\ InitStore
    /\ reaper = start_cleanup_task(TRUE)


\* ------------------------------------------- generate_tts_async, step by step
\* The driver runs on the event loop; it gives up control only where it awaits
\* the worker pool (a chunk synthesis, the file write) or asyncio.sleep.  Each
\* operator below is the code between two such points: it takes the registry and
\* the driver's inputs and returns the registry and where the driver is next.

\* Faulty variant of chunk_progress: the fraction is that of the chunks left.
chunk_progress_of_rest(i, n) == Pct(15) + (65 * (n - i) * Scale) \div n

\* chunk_progress = chunk_progress_start + (i / len(text_chunks)) * chunk_progress_range
chunk_progress(i, n) == Pct(15) + (65 * i * Scale) \div n

\* Faulty variant of driver_fail: the job is marked cancelled.
driver_fail_marks_cancelled(ts, id, message, t_now) ==
    [tasks |-> update_task_progress(ts, id, Pct(0), "Failed", "cancelled", t_now),
     pc |-> "failed"]

\* except Exception as e: task_manager.set_task_failed(task_id, str(e)); return None
driver_fail(ts, id, message, t_now) ==
    [tasks |-> set_task_failed(ts, id, message, t_now), pc |-> "failed"]

\* The launcher awaits the driver and, when it returns a path, marks the job
\* completed with it (section 4.2, step 7).
mark_completed(ts, id, output_path, t_now) ==
    set_task_completed(ts, id, output_path, t_now)

\* Faulty variant of driver_start: the text is chunked and the chunk count
\* stored before the voice configuration is validated.
driver_start_chunks_first(ts, id, loaded, voice_ok, n, t_now) ==
    LET a == update_task_progress(ts, id, Pct(0), "Starting TTS generation",
                                  "processing", t_now)
        b == update_task_progress(a, id, Pct(2), "Model validation complete", None, t_now)
        c == set_task_chunks(b, id, n)
        d == update_task_progress(c, id, Pct(5), "Voice configuration validated", None, t_now)
        e == update_task_progress(d, id, Pct(10), "Text split into chunks", None, t_now)
        f == update_task_progress(e, id, chunk_progress(0, n), "Synthesizing chunk",
                                  None, t_now)
    IN  IF ~loaded
        THEN driver_fail(a, id, "TTS engine model is not currently loaded or available", t_now)
        ELSE IF ~voice_ok
        THEN driver_fail(c, id, "Invalid voice configuration", t_now)
        ELSE IF n = 0
        THEN driver_fail(d, id, "Text processing resulted in no usable chunks", t_now)
        ELSE [tasks |-> f, pc |-> "synth"]

\* Faulty variant of driver_start: an empty chunk list is not rejected; it is
\* recorded, the loop runs no round and the concatenation of nothing fails.
driver_start_empty_goes_on(ts, id, loaded, voice_ok, n, t_now) ==
    LET a == update_task_progress(ts, id, Pct(0), "Starting TTS generation",
                                  "processing", t_now)
        b == update_task_progress(a, id, Pct(2), "Model validation complete", None, t_now)
        c == update_task_progress(b, id, Pct(5), "Voice configuration validated", None, t_now)
        d == set_task_chunks(c, id, n)
        e == update_task_progress(d, id, Pct(10), "Text split into chunks", None, t_now)
        f == update_task_progress(e, id, IF n = 0 THEN Pct(80) ELSE chunk_progress(0, n),
                                  "Synthesizing chunk", None, t_now)
    IN  IF ~loaded
        THEN driver_fail(a, id, "TTS engine model is not currently loaded or available", t_now)
        ELSE IF ~voice_ok
        THEN driver_fail(b, id, "Invalid voice configuration", t_now)
        ELSE IF n = 0
        THEN driver_fail(f, id, "Audio concatenation error", t_now)
        ELSE [tasks |-> f, pc |-> "synth"]

\* Lines 50-101: from the first statement to the first await of the worker pool.
\* loaded: engine.MODEL_LOADED; voice_ok: _validate_voice_config returns;
\* n: len(text_chunks).
driver_start(ts, id, loaded, voice_ok, n, t_now) ==
    LET a == update_task_progress(ts, id, Pct(0), "Starting TTS generation",
                                  "processing", t_now)
        b == update_task_progress(a, id, Pct(2), "Model validation complete", None, t_now)
        c == update_task_progress(b, id, Pct(5), "Voice configuration validated", None, t_now)
        d == set_task_chunks(c, id, n)
        e == update_task_progress(d, id, Pct(10), "Text split into chunks", None, t_now)
        f == update_task_progress(e, id, chunk_progress(0, n), "Synthesizing chunk",
                                  None, t_now)
    IN  IF ~loaded
        THEN driver_fail(a, id, "TTS engine model is not currently loaded or available", t_now)
        ELSE IF ~voice_ok
        THEN driver_fail(b, id, "Invalid voice configuration", t_now)
        ELSE IF n = 0
        THEN driver_fail(c, id, "Text processing resulted in no usable chunks", t_now)
        ELSE [tasks |-> f, pc |-> "synth"]

\* Faulty variant of driver_synth_done: a synthesized chunk is not counted.
driver_synth_done_not_counted(ts, id, r, t_now) ==
    CASE r = "none" ->
           driver_fail(ts, id, "TTS engine failed to synthesize audio for chunk", t_now)
      [] r = "raise_empty" -> driver_fail(ts, id, "", t_now)
      [] OTHER -> [tasks |-> ts, pc |-> "sleep"]

\* Faulty variant of driver_synth_done: a chunk that failed marks the job
\* failed and the loop goes on with the next chunk.
driver_synth_done_goes_on(ts, id, r, t_now) ==
    IF r = "ok"
    THEN [tasks |-> increment_completed_chunks(ts, id), pc |-> "sleep"]
    ELSE [tasks |-> set_task_failed(ts, id, "chunk failed", t_now), pc |-> "sleep"]

\* Faulty variant of driver_synth_done: a synthesized chunk is counted twice.
driver_synth_done_counted_twice(ts, id, r, t_now) ==
    CASE r = "none" ->
           driver_fail(ts, id, "TTS engine failed to synthesize audio for chunk", t_now)
      [] r = "raise_empty" -> driver_fail(ts, id, "", t_now)
      [] OTHER -> [tasks |-> increment_completed_chunks(increment_completed_chunks(ts, id), id),
                   pc |-> "sleep"]

\* Lines 99-129: the worker pool delivered the result of chunk i.
\* r: "ok" a waveform; "none" engine.synthesize returned (None, None);
\* "raise_empty" the post-processing of the waveform raised an exception whose
\* text is empty.
driver_synth_done(ts, id, r, t_now) ==
    CASE r = "none" ->
           driver_fail(ts, id, "TTS engine failed to synthesize audio for chunk", t_now)
      [] r = "raise_empty" -> driver_fail(ts, id, "", t_now)
      [] OTHER -> [tasks |-> increment_completed_chunks(ts, id), pc |-> "sleep"]

\* Lines 88-96 and 131-163: asyncio.sleep(0.01) returned after chunk i of n.
\* Either the next chunk is handed to the worker pool, or the loop is over and
\* the audio is concatenated, encoded and handed to the pool to be written.
driver_after_sleep(ts, id, i, n, concat_ok, encode_ok, t_now) ==
    LET nxt == update_task_progress(ts, id, chunk_progress(i + 1, n), "Synthesizing chunk",
                                    None, t_now)
        a == update_task_progress(ts, id, Pct(80),
                                  "All chunks synthesized, concatenating audio", None, t_now)
        b == update_task_progress(a, id, Pct(85), "Audio concatenation complete", None, t_now)
        c == update_task_progress(b, id, Pct(90), "Applying final post-processing", None, t_now)
        d == update_task_progress(c, id, Pct(95), "Audio encoded", None, t_now)
    IN  IF i + 1 < n
        THEN [tasks |-> nxt, pc |-> "synth"]
        ELSE IF ~concat_ok
        THEN driver_fail(a, id, "Audio concatenation error", t_now)
        ELSE IF ~encode_ok
        THEN driver_fail(c, id, "Failed to encode audio or generated invalid audio", t_now)
        ELSE [tasks |-> d, pc |-> "save"]

\* What write_file leaves on disk: open() creates the file, so it exists unless
\* open() itself failed.
write_file(files, id, r) == IF r = "open_failed" THEN files ELSE files \cup {PathOf(id)}

\* Faulty variant of driver_save_done: the outcome of write_file is not looked at.
driver_save_done_ignores_error(ts, id, r, t_now) ==
    [tasks |-> mark_completed(
                 update_task_progress(ts, id, Pct(100),
                     "TTS generation completed successfully", None, t_now),
                 id, PathOf(id), t_now),
     pc |-> "returned"]

\* Lines 163-166 (and 270-273): the worker pool finished write_file.
\* r: "ok"; "open_failed" open() raised; "write_failed" f.write raised.
driver_save_done(ts, id, r, t_now) ==
    IF r = "ok"
    THEN [tasks |-> mark_completed(
                      update_task_progress(ts, id, Pct(100),
                          "TTS generation completed successfully", None, t_now),
                      id, PathOf(id), t_now),
          pc |-> "returned"]
    ELSE driver_fail(ts, id, "write error", t_now)

SynthResults == {"ok", "none", "raise_empty"}
WriteResults == {"ok", "open_failed", "write_failed"}

\* The launcher registers the driver's handle when it starts the driver and
\* unregisters it when the driver is over, however it ended.
launcher_exit(registry, id, driver_pc) ==
    IF driver_pc \in Done THEN unregister_running_task(registry, id) ELSE registry

\* ---------------------------------------------------------------- actions

\* Submission: create_task, then the driver is launched and its handle
\* registered if the admission controller allows; otherwise the job stays queued.
SubmitJob ==
    /\ next_id < MaxTasks
    /\ LET id == next_id + 1
           ts == create_task(tasks, id, now)
       IN  /\ next_id' = id
           /\ tasks' = ts
           /\ IF can_start_new_task(ts)
              THEN /\ pc' = [pc EXCEPT ![id] = "ready"]
                   /\ running_tasks' = register_running_task(running_tasks, id)
              ELSE UNCHANGED <<pc, running_tasks>>
    /\ UNCHANGED <<now, disk, chunks, idx, must_cancel, pool, rm, rm_task, cleanup_todo,
                   synth_calls, missed, held, rm_found, reaper, segments, shutdown, old_loops>>

\* One step of the driver of id: the registry, the driver's position, its locals
\* n (len(text_chunks)), i (the loop index) and segs (all_audio_segments_np),
\* and its worker-pool call after it.
\* The locals are gone once the coroutine is over.
DriverStep(id, r, n, i, call, segs) ==
    /\ tasks' = r.tasks
    /\ segments' = [segments EXCEPT ![id] = IF r.pc \in Done THEN <<>> ELSE segs]
    /\ pc' = [pc EXCEPT ![id] = r.pc]
    /\ running_tasks' = launcher_exit(running_tasks, id, r.pc)
    /\ chunks' = [chunks EXCEPT ![id] = IF r.pc \in Done THEN 0 ELSE n]
    /\ idx' = [idx EXCEPT ![id] = IF r.pc \in Done THEN 0 ELSE i]
    /\ pool' = [pool EXCEPT ![id] = IF r.pc \in Done THEN "idle" ELSE call]
    /\ synth_calls' = [synth_calls EXCEPT ![id] = IF call = "synth" /\ r.pc = "synth"
                                                   THEN @ + 1 ELSE @]
    /\ missed' = [missed EXCEPT ![id] = @ \/ id \notin DOMAIN tasks]

DriverStart(id) ==
    /\ pc[id] = "ready"
    /\ ~must_cancel[id]
    /\ \E loaded \in BOOLEAN, voice_ok \in BOOLEAN, n \in 0..MaxChunks :
         DriverStep(id, driver_start(tasks, id, loaded, voice_ok, n, now), n, 0, "synth", <<>>)
    /\ UNCHANGED <<next_id, now, disk, must_cancel, rm, rm_task, cleanup_todo, held,
                   rm_found, reaper, shutdown, old_loops>>

DriverSynthDone(id) ==
    /\ pc[id] = "synth"
    /\ ~must_cancel[id]
    /\ \E res \in SynthResults :
         DriverStep(id, driver_synth_done(tasks, id, res, now), chunks[id], idx[id], "idle",
                    IF res = "ok" THEN Append(segments[id], idx[id]) ELSE segments[id])
    /\ UNCHANGED <<next_id, now, disk, must_cancel, rm, rm_task, cleanup_todo, held,
                   rm_found, reaper, shutdown, old_loops>>

DriverSleepDone(id) ==
    /\ pc[id] = "sleep"
    /\ ~must_cancel[id]
    /\ \E concat_ok \in BOOLEAN, encode_ok \in BOOLEAN :
         LET r == driver_after_sleep(tasks, id, idx[id], chunks[id], concat_ok, encode_ok, now)
         IN  DriverStep(id, r, chunks[id],
                        IF r.pc = "synth" THEN idx[id] + 1 ELSE idx[id],
                        IF r.pc = "synth" THEN "synth" ELSE "write", segments[id])
    /\ UNCHANGED <<next_id, now, disk, must_cancel, rm, rm_task, cleanup_todo, held,
                   rm_found, reaper, shutdown, old_loops>>

DriverSaveDone(id) ==
    /\ pc[id] = "save"
    /\ ~must_cancel[id]
    /\ \E res \in WriteResults :
         /\ DriverStep(id, driver_save_done(tasks, id, res, now), chunks[id], idx[id], "idle",
                       segments[id])
         /\ disk' = write_file(disk, id, res)
    /\ UNCHANGED <<next_id, now, must_cancel, rm, rm_task, cleanup_todo, held, rm_found, reaper,
                   shutdown, old_loops>>

\* The cancellation reaches the driver at its next step: CancelledError is not an
\* Exception, so the except clause does not run and the driver just ends.
DriverCancelled(id) ==
    /\ must_cancel[id]
    /\ pc[id] \notin Done
    /\ pc' = [pc EXCEPT ![id] = "cancelled"]
    /\ running_tasks' = launcher_exit(running_tasks, id, "cancelled")
    /\ chunks' = [chunks EXCEPT ![id] = 0]
    /\ idx' = [idx EXCEPT ![id] = 0]
    /\ must_cancel' = [must_cancel EXCEPT ![id] = FALSE]
    /\ synth_calls' = [synth_calls EXCEPT ![id] = 0]
    /\ segments' = [segments EXCEPT ![id] = <<>>]
    /\ UNCHANGED <<tasks, next_id, now, disk, pool, rm, rm_task, cleanup_todo, missed,
                   held, rm_found, reaper, shutdown, old_loops>>

\* A worker-pool call that was already running when its driver was cancelled
\* runs to its end on its thread; its result is dropped.
OrphanDone(id) ==
    /\ pool[id] \in {"orphan_synth", "orphan_write"}
    /\ \E res \in WriteResults :
         disk' = IF pool[id] = "orphan_write" THEN write_file(disk, id, res) ELSE disk
    /\ pool' = [pool EXCEPT ![id] = "idle"]
    /\ UNCHANGED <<tasks, next_id, running_tasks, now, chunks, idx, must_cancel, pc, rm,
                   rm_task, cleanup_todo, synth_calls, missed, held, rm_found, reaper,
                   segments, shutdown, old_loops>>

\* ------------------------------------------------------------- remove_task
\* The part of the state remove_task reads and writes, as one value.
StoreState ==
    [tasks |-> tasks, running_tasks |-> running_tasks, disk |-> disk,
     must_cancel |-> must_cancel, pool |-> pool, rm |-> rm, rm_task |-> rm_task]

Apply(st) ==
    /\ tasks' = st.tasks
    /\ running_tasks' = st.running_tasks
    /\ disk' = st.disk
    /\ must_cancel' = st.must_cancel
    /\ pool' = st.pool
    /\ rm' = st.rm
    /\ rm_task' = st.rm_task

\* Faulty variant of remove_task_sync: the driver is cancelled but not awaited.
remove_task_sync_no_wait(ts, registry, id, driver_done) ==
    [tasks |-> pop_task(ts, id),
     task |-> [status |-> ts[id].status, result_path |-> ts[id].result_path],
     registry |-> registry \ {id},
     cancel |-> id \in registry /\ ~driver_done,
     wait |-> FALSE]

\* Lines 199-210: pop the record, pop the handle, cancel the driver if it is
\* registered and not done.  wait: the call then awaits the driver.
remove_task_sync(ts, registry, id, driver_done) ==
    [tasks |-> pop_task(ts, id),
     task |-> [status |-> ts[id].status, result_path |-> ts[id].result_path],
     registry |-> registry \ {id},
     cancel |-> id \in registry /\ ~driver_done,
     wait |-> id \in registry /\ ~driver_done]

\* Lines 216-222: unlink the result file if the popped record names one and it
\* exists; unlink_ok = FALSE: unlink raised, which is logged and ignored.
remove_unlink(files, task, unlink_ok) ==
    IF task.result_path # None /\ task.result_path \in files /\ unlink_ok
    THEN files \ {task.result_path}
    ELSE files

\* Future.cancel() on the awaited worker-pool call: a call that has not started
\* is dropped, a call that is running cannot be stopped.
cancel_pool(p, started) ==
    CASE p = "synth" -> IF started THEN "orphan_synth" ELSE "idle"
      [] p = "write" -> IF started THEN "orphan_write" ELSE "idle"
      [] OTHER -> p

\* Where a remove_task call is, with who made it: a caller, or a cleanup cycle.
Pos(at, by) == IF by = "cleanup" THEN at \o "_cleanup" ELSE at

\* Lines 216-225: after the driver (if any) is over: unlink, return True.
remove_task_finish(st, id, by, unlink_ok) ==
    [st EXCEPT !.disk = remove_unlink(@, st.rm_task[id], unlink_ok),
               !.rm = [@ EXCEPT ![id] = Pos("returned", by)]]

\* Faulty variant of remove_task: a call for an id that has no record goes on
\* to the end and returns True.
remove_task_always_true(st, id, by, done, started, unlink_ok) ==
    IF id \notin DOMAIN st.tasks
    THEN [st EXCEPT !.rm = [@ EXCEPT ![id] = Pos("returned", by)]]
    ELSE LET r == remove_task_sync(st.tasks, st.running_tasks, id, id \in done)
             popped == [st EXCEPT !.tasks = r.tasks,
                                  !.rm_task = @ @@ (id :> r.task),
                                  !.running_tasks = r.registry]
             cancelled == IF r.cancel
                          THEN [popped EXCEPT
                                  !.must_cancel = [@ EXCEPT ![id] = TRUE],
                                  !.pool = [@ EXCEPT ![id] = cancel_pool(@, started)]]
                          ELSE popped
         IN  IF r.wait
             THEN [cancelled EXCEPT !.rm = [@ EXCEPT ![id] = Pos("awaiting", by)]]
             ELSE remove_task_finish(cancelled, id, by, unlink_ok)

\* remove_task(id) up to its await, or to its end when it does not await.
\* by: who calls ("caller" or "cleanup"); done: the ids whose driver is done.
\* An id that is not in the registry: return False, nothing changes.
remove_task(st, id, by, done, started, unlink_ok) ==
    IF id \notin DOMAIN st.tasks
    THEN st
    ELSE LET r == remove_task_sync(st.tasks, st.running_tasks, id, id \in done)
             popped == [st EXCEPT !.tasks = r.tasks,
                                  !.rm_task = @ @@ (id :> r.task),
                                  !.running_tasks = r.registry]
             cancelled == IF r.cancel
                          THEN [popped EXCEPT
                                  !.must_cancel = [@ EXCEPT ![id] = TRUE],
                                  !.pool = [@ EXCEPT ![id] = cancel_pool(@, started)]]
                          ELSE popped
         IN  IF r.wait
             THEN [cancelled EXCEPT !.rm = [@ EXCEPT ![id] = Pos("awaiting", by)]]
             ELSE remove_task_finish(cancelled, id, by, unlink_ok)

DoneIds == {id \in TaskIds : pc[id] \in Done}

\* A caller's remove_task(id).
RemoveTask(id) ==
    /\ \E started \in BOOLEAN, unlink_ok \in BOOLEAN :
         Apply(remove_task(StoreState, id, "caller", DoneIds, started, unlink_ok))
    /\ UNCHANGED <<next_id, now, pc, chunks, idx, cleanup_todo, synth_calls, missed,
                   held, rm_found, reaper, segments, shutdown, old_loops>>

\* Lines 211-225: the driver a caller's remove_task awaited is done.
RemoveResume(id) ==
    /\ rm[id] = "awaiting"
    /\ pc[id] \in Done
    /\ \E unlink_ok \in BOOLEAN : Apply(remove_task_finish(StoreState, id, "caller", unlink_ok))
    /\ UNCHANGED <<next_id, now, pc, chunks, idx, cleanup_todo, synth_calls, missed,
                   held, rm_found, reaper, segments, shutdown, old_loops>>

\* --------------------------------------------------------- the running service
Next ==
    \/ SubmitJob
    \/ \E id \in TaskIds : DriverStart(id)
    \/ \E id \in TaskIds : DriverSynthDone(id)
    \/ \E id \in TaskIds : DriverSleepDone(id)
    \/ \E id \in TaskIds : DriverSaveDone(id)
    \/ \E id \in TaskIds : DriverCancelled(id)
    \/ \E id \in TaskIds : OrphanDone(id)
    \/ \E id \in TaskIds : RemoveTask(id)
    \/ \E id \in TaskIds : RemoveResume(id)

Spec == Init /\ [][Next]_vars

\* ------------------------------------------------------- cleanup_old_tasks
\* Faulty variant of tasks_to_remove: the status is not looked at.
tasks_to_remove_any_status(ts, t_now) ==
    {id \in DOMAIN ts : ts[id].updated_at < t_now - task_timeout_hours}

\* Lines 105-112: the ids of the terminal jobs last updated before the cutoff.
tasks_to_remove(ts, t_now) ==
    {id \in DOMAIN ts :
        /\ ts[id].status \in {"completed", "failed", "cancelled"}
        /\ ts[id].updated_at < t_now - task_timeout_hours}

\* The ids of a set in the order the dict yields them (insertion order: ids
\* are handed out in increasing order).
RECURSIVE InOrder(_)
InOrder(S) ==
    IF S = {} THEN <<>>
    ELSE LET m == CHOOSE x \in S : \A y \in S : x <= y
         IN  <<m>> \o InOrder(S \ {m})

\* Lines 114-115: remove_task for each selected id in turn, until one of the
\* calls awaits a driver; todo is what is left of the list then.
RECURSIVE cleanup_run(_, _, _, _, _)
cleanup_run(st, todo, done, started, unlink_ok) ==
    IF todo = <<>>
    THEN [st |-> st, todo |-> <<>>]
    ELSE LET id == Head(todo)
             after == remove_task(st, id, "cleanup", done, started, unlink_ok)
         IN  IF after.rm[id] = "awaiting_cleanup"
             THEN [st |-> after, todo |-> Tail(todo)]
             ELSE cleanup_run(after, Tail(todo), done, started, unlink_ok)

\* One cleanup_old_tasks cycle, up to its first await (or to its end).
CleanupOldTasks ==
    /\ cleanup_todo = <<>>
    /\ \A id \in TaskIds : rm[id] # "awaiting_cleanup"
    /\ \E started \in BOOLEAN, unlink_ok \in BOOLEAN :
         LET r == cleanup_run(StoreState, InOrder(tasks_to_remove(tasks, now)),
                              DoneIds, started, unlink_ok)
         IN  /\ Apply(r.st)
             /\ cleanup_todo' = r.todo
    /\ UNCHANGED <<next_id, now, pc, chunks, idx, synth_calls, missed, held, rm_found, reaper,
                   segments, shutdown, old_loops>>

\* The driver the cycle's remove_task awaited is done: that call ends and the
\* cycle goes on with the rest of its list.
CleanupResume(id) ==
    /\ rm[id] = "awaiting_cleanup"
    /\ pc[id] \in Done
    /\ \E started \in BOOLEAN, unlink_ok \in BOOLEAN :
         LET r == cleanup_run(remove_task_finish(StoreState, id, "cleanup", unlink_ok),
                              cleanup_todo, DoneIds, started, unlink_ok)
         IN  /\ Apply(r.st)
             /\ cleanup_todo' = r.todo
    /\ UNCHANGED <<next_id, now, pc, chunks, idx, synth_calls, missed, held, rm_found, reaper,
                   segments, shutdown, old_loops>>

\* ------------------------------------------------------ the TaskManager alone
\* Arguments callers pass.
ProgressArgs == {Pct(0 - 5), Pct(50), Pct(150)}
StatusArgs == {None, "processing", "completed"}
MessageArgs == {"error"}

ApiCreateTask ==
    /\ next_id < MaxTasks
    /\ next_id' = next_id + 1
    /\ tasks' = create_task(tasks, next_id + 1, now)
    /\ UNCHANGED <<running_tasks, now, disk, pc, chunks, idx, must_cancel, pool, rm,
                   rm_task, cleanup_todo, synth_calls, missed, held, rm_found, reaper,
                   segments, shutdown, old_loops>>

\* A call of one of the five mutators for id that leaves the registry as after:
\* the registry changes, and the call is noted when it found no record.
MutatorCall(id, after) ==
    /\ tasks' = after
    /\ missed' = [missed EXCEPT ![id] = @ \/ id \notin DOMAIN tasks]
    /\ UNCHANGED <<next_id, running_tasks, now, disk, pc, chunks, idx, must_cancel, pool,
                   rm, rm_task, cleanup_todo, synth_calls, held, rm_found, reaper, segments,
                   shutdown, old_loops>>

ApiUpdateProgress(id) ==
    /\ id \in 1..next_id
    /\ \E progress \in ProgressArgs, status \in StatusArgs :
         MutatorCall(id, update_task_progress(tasks, id, progress, "Working", status, now))

ApiSetCompleted(id) ==
    /\ id \in 1..next_id
    /\ MutatorCall(id, set_task_completed(tasks, id, PathOf(id), now))

ApiSetFailed(id) ==
    /\ id \in 1..next_id
    /\ \E message \in MessageArgs :
         MutatorCall(id, set_task_failed(tasks, id, message, now))

ApiSetChunks(id) ==
    /\ id \in 1..next_id
    /\ \E total_chunks \in {1, MaxChunks} :
         MutatorCall(id, set_task_chunks(tasks, id, total_chunks))

\* The counter is an int without a bound; calls are made while it is below MaxChunks.
ApiIncrementChunks(id) ==
    /\ id \in 1..next_id
    /\ id \in DOMAIN tasks => tasks[id].completed_chunks < MaxChunks
    /\ MutatorCall(id, increment_completed_chunks(tasks, id))

\* _save_result_file for job id: its result file is written.
SaveResultFile(id) ==
    /\ id \in 1..next_id
    /\ disk' = write_file(disk, id, "ok")
    /\ UNCHANGED <<tasks, next_id, running_tasks, now, pc, chunks, idx, must_cancel, pool,
                   rm, rm_task, cleanup_todo, synth_calls, missed, held, rm_found, reaper,
                   segments, shutdown, old_loops>>

\* An hour passes.
Tick ==
    /\ now < MaxTime
    /\ now' = now + 1
    /\ UNCHANGED <<tasks, next_id, running_tasks, disk, pc, chunks, idx, must_cancel,
                   pool, rm, rm_task, cleanup_todo, synth_calls, missed, held, rm_found, reaper,
                   segments, shutdown, old_loops>>

StoreNext ==
    \/ ApiCreateTask
    \/ \E id \in TaskIds : ApiUpdateProgress(id)
    \/ \E id \in TaskIds : ApiSetCompleted(id)
    \/ \E id \in TaskIds : ApiSetFailed(id)
    \/ \E id \in TaskIds : SaveResultFile(id)
    \/ \E id \in TaskIds : RemoveTask(id)
    \/ Tick
    \/ CleanupOldTasks

StoreSpec == Init /\ [][StoreNext]_vars


\* The event loop runs every driver that can take a step, and delivers every
\* cancellation; the engine's calls and the file write return.
FairSpec ==
    /\ Spec
    /\ \A id \in TaskIds :
         /\ WF_vars(DriverStart(id))
         /\ WF_vars(DriverSynthDone(id))
         /\ WF_vars(DriverSleepDone(id))
         /\ WF_vars(DriverSaveDone(id))
         /\ WF_vars(DriverCancelled(id))

\* ---------------------------------------- the mutators against remove_task
\* The five mutators and remove_task called in any order for any id handed out,
\* as by drivers that race with the removal of their job.
MutatorNext ==
    \/ ApiCreateTask
    \/ \E id \in TaskIds : ApiUpdateProgress(id)
    \/ \E id \in TaskIds : ApiSetCompleted(id)
    \/ \E id \in TaskIds : ApiSetFailed(id)
    \/ \E id \in TaskIds : ApiSetChunks(id)
    \/ \E id \in TaskIds : ApiIncrementChunks(id)
    \/ \E id \in TaskIds : RemoveTask(id)

MutatorSpec == Init /\ [][MutatorNext]_vars

\* ------------------------------------------- the running service with its reaper
\* The service of Spec with a clock and the cleanup cycle of _cleanup_loop.  A
\* cycle selects terminal jobs only, and their drivers are over, so its
\* remove_task calls never await.
ReaperNext ==
    \/ Next
    \/ Tick
    \/ CleanupOldTasks

ReaperSpec == Init /\ [][ReaperNext]_vars

\* ------------------------------------------------ the running service, polled
\* get_task returns self.tasks.get(task_id): the TTSTask object of the registry
\* itself (None for an unknown id).
get_task(ts, id) == IF id \in DOMAIN ts THEN (id :> ts[id]) ELSE <<>>

\* get_all_tasks returns self.tasks.copy(): a new dict with the same TTSTask
\* objects.
get_all_tasks(ts) == ts

\* The TTSTask object a caller holds for id is the object the registry holds
\* under id, for as long as the record is in the registry: its field values now.
HeldObject(id) == tasks[id]

GetTask(id) ==
    /\ id \in 1..next_id
    /\ held' = get_task(tasks, id)
    /\ UNCHANGED <<tasks, next_id, running_tasks, now, disk, pc, chunks, idx, must_cancel,
                   pool, rm, rm_task, cleanup_todo, synth_calls, missed, rm_found, reaper,
                   segments, shutdown, old_loops>>

GetAllTasks ==
    /\ held' = get_all_tasks(tasks)
    /\ UNCHANGED <<tasks, next_id, running_tasks, now, disk, pc, chunks, idx, must_cancel,
                   pool, rm, rm_task, cleanup_todo, synth_calls, missed, rm_found, reaper,
                   segments, shutdown, old_loops>>

PollNext ==
    \/ Next
    \/ \E id \in TaskIds : GetTask(id)
    \/ GetAllTasks

PollSpec == Init /\ [][PollNext]_vars

\* ------------------------------------- the running service, removals recorded
\* A caller's remove_task(id), with what line 203 found written down.
RemoveCall(id) ==
    /\ \E started \in BOOLEAN, unlink_ok \in BOOLEAN :
         Apply(remove_task(StoreState, id, "caller", DoneIds, started, unlink_ok))
    /\ rm_found' = [rm_found EXCEPT ![id] = IF id \in DOMAIN tasks THEN "yes" ELSE "no"]
    /\ UNCHANGED <<next_id, now, pc, chunks, idx, cleanup_todo, synth_calls, missed, held,
                   reaper, segments, shutdown, old_loops>>

RemoveNext ==
    \/ SubmitJob
    \/ \E id \in TaskIds : DriverStart(id)
    \/ \E id \in TaskIds : DriverSynthDone(id)
    \/ \E id \in TaskIds : DriverSleepDone(id)
    \/ \E id \in TaskIds : DriverSaveDone(id)
    \/ \E id \in TaskIds : DriverCancelled(id)
    \/ \E id \in TaskIds : OrphanDone(id)
    \/ \E id \in TaskIds : RemoveCall(id)
    \/ \E id \in TaskIds : RemoveResume(id)

RemoveSpec == Init /\ [][RemoveNext]_vars

\* ------------------------------- the running service, its Reaper and shutdown
\* Faulty variant of cleanup_loop_except: a cancellation is logged like any
\* other exception and the loop goes on.
cleanup_loop_except_goes_on(exc) == "sleeping"

\* Faulty variant of cleanup_loop_except: the try statement is around the
\* loop, so any exception ends it.
cleanup_loop_except_stops(exc) == "stopped"

\* Lines 98-101: `except asyncio.CancelledError: break`, `except Exception:`
\* log the error and go round the loop again.
cleanup_loop_except(exc) == IF exc = "CancelledError" THEN "stopped" ELSE "sleeping"

\* Lines 96-97: the sleep of _cleanup_loop is over and a cleanup cycle runs.
ReaperCycle ==
    /\ reaper = "sleeping"
    /\ CleanupOldTasks

\* shutdown, lines 252-253: self._cleanup_task.cancel().  The loop is suspended
\* in its sleep, or in a remove_task that awaits a driver.
CancelReaper ==
    /\ reaper = "sleeping"
    /\ reaper' = "cancel_requested"
    /\ UNCHANGED <<tasks, next_id, running_tasks, now, disk, pc, chunks, idx, must_cancel,
                   pool, rm, rm_task, cleanup_todo, synth_calls, missed, held, rm_found,
                   segments, shutdown, old_loops>>

\* The event loop resumes _cleanup_loop with CancelledError raised at the await
\* it is suspended in: the sleep, when no remove_task of the cycle is awaiting.
ReaperCancelled ==
    /\ reaper = "cancel_requested"
    /\ \A id \in TaskIds : rm[id] # "awaiting_cleanup"
    /\ reaper' = cleanup_loop_except("CancelledError")
    /\ UNCHANGED <<tasks, next_id, running_tasks, now, disk, pc, chunks, idx, must_cancel,
                   pool, rm, rm_task, cleanup_todo, synth_calls, missed, held, rm_found,
                   segments, shutdown, old_loops>>

LoopNext ==
    \/ Next
    \/ Tick
    \/ ReaperCycle
    \/ CancelReaper
    \/ ReaperCancelled

LoopSpec == Init /\ [][LoopNext]_vars

\* ------------------------------------------- the Reaper, with cycles that fail
\* remove_task up to line 217, where Path(task.result_path).exists() raises (the
\* test is outside the try statement of lines 218-222): the record and the
\* handle are popped, the file is not deleted and the call does not return.
\* For a job whose driver is done.
remove_task_exists_raises(st, id, by, done) ==
    LET r == remove_task_sync(st.tasks, st.running_tasks, id, id \in done)
    IN  [st EXCEPT !.tasks = r.tasks,
                   !.rm_task = @ @@ (id :> r.task),
                   !.running_tasks = r.registry,
                   !.rm = [@ EXCEPT ![id] = Pos("raised", by)]]

\* A cleanup cycle in which the k-th remove_task raises: the jobs before it are
\* removed, the rest of the list is left for a later cycle, and the exception
\* reaches the except clauses of _cleanup_loop.
ReaperCycleRaises ==
    /\ reaper = "sleeping"
    /\ cleanup_todo = <<>>
    /\ \A id \in TaskIds : rm[id] # "awaiting_cleanup"
    /\ LET todo == InOrder(tasks_to_remove(tasks, now))
       IN  \E k \in 1..Len(todo), started \in BOOLEAN, unlink_ok \in BOOLEAN :
             LET r == cleanup_run(StoreState, SubSeq(todo, 1, k - 1), DoneIds, started,
                                  unlink_ok)
             IN  /\ r.todo = <<>>
                 /\ todo[k] \in DoneIds \/ todo[k] \notin running_tasks
                 /\ r.st.tasks[todo[k]].result_path # None
                 /\ Apply(remove_task_exists_raises(r.st, todo[k], "cleanup", DoneIds))
    /\ reaper' = cleanup_loop_except("Exception")
    /\ UNCHANGED <<next_id, now, pc, chunks, idx, cleanup_todo, synth_calls, missed, held,
                   rm_found, segments, shutdown, old_loops>>

LoopErrNext ==
    \/ LoopNext
    \/ ReaperCycleRaises

LoopErrSpec == Init /\ [][LoopErrNext]_vars

\* --------------------------------- removals by callers beside the Reaper
\* The running service with callers' remove_task calls recorded, a clock and
\* the cleanup cycle.
RaceNext ==
    \/ RemoveNext
    \/ Tick
    \/ CleanupOldTasks

RaceSpec == Init /\ [][RaceNext]_vars

\* ------------------------------------------------------------- shutdown
\* Lines 252-253: cancel() on the cleanup task if there is one and it is not
\* done.
shutdown_reaper(pos) == IF pos = "sleeping" THEN "cancel_requested" ELSE pos

\* Faulty variant of shutdown_cancel: the handles are gathered without being
\* cancelled.
shutdown_cancel_none(mc, registry, done) == mc

\* Lines 260-263: cancel() on every registered handle that is not done.
shutdown_cancel(mc, registry, done) ==
    [id \in TaskIds |-> mc[id] \/ (id \in registry /\ id \notin done)]

\* shutdown() up to `await self._cleanup_task`.
ShutdownStart ==
    /\ shutdown = "none"
    /\ reaper' = shutdown_reaper(reaper)
    /\ shutdown' = "awaiting_reaper"
    /\ UNCHANGED <<tasks, next_id, running_tasks, now, disk, pc, chunks, idx, must_cancel,
                   pool, rm, rm_task, cleanup_todo, synth_calls, missed, held, rm_found,
                   segments, old_loops>>

\* The cleanup task is over: the registered drivers are cancelled, and
\* shutdown() awaits them with gather if there is any handle.
ShutdownCancelDrivers ==
    /\ shutdown = "awaiting_reaper"
    /\ reaper = "stopped"
    /\ must_cancel' = shutdown_cancel(must_cancel, running_tasks, DoneIds)
    /\ \E started \in [TaskIds -> BOOLEAN] :
         pool' = [id \in TaskIds |->
                    IF id \in running_tasks /\ id \notin DoneIds
                    THEN cancel_pool(pool[id], started[id]) ELSE pool[id]]
    /\ shutdown' = IF running_tasks = {} THEN "returned" ELSE "awaiting_drivers"
    /\ UNCHANGED <<tasks, next_id, running_tasks, now, disk, pc, chunks, idx, rm, rm_task,
                   cleanup_todo, synth_calls, missed, held, rm_found, reaper, segments,
                   old_loops>>

\* Lines 266-269: gather is over once every cancellation was delivered.
ShutdownReturn ==
    /\ shutdown = "awaiting_drivers"
    /\ \A id \in TaskIds : ~must_cancel[id]
    /\ shutdown' = "returned"
    /\ UNCHANGED <<tasks, next_id, running_tasks, now, disk, pc, chunks, idx, must_cancel,
                   pool, rm, rm_task, cleanup_todo, synth_calls, missed, held, rm_found,
                   reaper, segments, old_loops>>

\* Jobs are submitted until shutdown() is called.
SubmitBeforeShutdown ==
    /\ shutdown = "none"
    /\ SubmitJob

\* The service until its shutdown: drivers, removals, the clock and the Reaper
\* go on beside shutdown().
ShutdownNext ==
    \/ SubmitBeforeShutdown
    \/ \E id \in TaskIds : DriverStart(id)
    \/ \E id \in TaskIds : DriverSynthDone(id)
    \/ \E id \in TaskIds : DriverSleepDone(id)
    \/ \E id \in TaskIds : DriverSaveDone(id)
    \/ \E id \in TaskIds : DriverCancelled(id)
    \/ \E id \in TaskIds : OrphanDone(id)
    \/ \E id \in TaskIds : RemoveTask(id)
    \/ \E id \in TaskIds : RemoveResume(id)
    \/ Tick
    \/ ReaperCycle
    \/ ReaperCancelled
    \/ ShutdownStart
    \/ ShutdownCancelDrivers
    \/ ShutdownReturn

ShutdownSpec == Init /\ [][ShutdownNext]_vars

\* ------------------------------------------------- starting the cleanup loop
\* Faulty variant of ensure_cleanup_task_started: a loop is started whether or
\* not there is one already.
ensure_cleanup_task_started_anyway(pos, loop_running) ==
    IF loop_running THEN [reaper |-> "sleeping", created |-> TRUE]
    ELSE [reaper |-> pos, created |-> FALSE]

\* Lines 81-90: a new loop is created if self._cleanup_task is None or done(),
\* and an event loop is running; created: a task was created.
ensure_cleanup_task_started(pos, loop_running) ==
    IF pos \in {"none", "stopped"} /\ loop_running
    THEN [reaper |-> "sleeping", created |-> TRUE]
    ELSE [reaper |-> pos, created |-> FALSE]

\* A call of ensure_cleanup_task_started.  A new task takes the place of the
\* one self._cleanup_task referred to, which stays what it is.
EnsureCleanupTaskStarted ==
    /\ Len(old_loops) < MaxRestarts
    /\ \E loop_running \in BOOLEAN :
         LET r == ensure_cleanup_task_started(reaper, loop_running)
         IN  /\ reaper' = r.reaper
             /\ old_loops' = IF r.created /\ reaper # "none"
                             THEN Append(old_loops, reaper) ELSE old_loops
    /\ UNCHANGED <<tasks, next_id, running_tasks, now, disk, pc, chunks, idx, must_cancel,
                   pool, rm, rm_task, cleanup_todo, synth_calls, missed, held, rm_found,
                   segments, shutdown>>

\* The TaskManager constructed with or without a running event loop.
StartInit ==
    /\ InitStore
    /\ \E loop_running \in BOOLEAN : reaper = start_cleanup_task(loop_running)

\* The service with its cleanup loop started, cancelled and started again.
StartNext ==
    \/ SubmitJob
    \/ \E id \in TaskIds : DriverStart(id)
    \/ \E id \in TaskIds : DriverSynthDone(id)
    \/ \E id \in TaskIds : DriverSleepDone(id)
    \/ \E id \in TaskIds : DriverSaveDone(id)
    \/ Tick
    \/ ReaperCycle
    \/ CancelReaper
    \/ ReaperCancelled
    \/ EnsureCleanupTaskStarted

StartSpec == StartInit /\ [][StartNext]_vars

\* ----------------------------------------- the service left to its Reaper
\* No caller removes a job: jobs are submitted, the drivers run, time passes
\* and the cleanup cycle runs.
UnattendedNext ==
    \/ SubmitJob
    \/ \E id \in TaskIds : DriverStart(id)
    \/ \E id \in TaskIds : DriverSynthDone(id)
    \/ \E id \in TaskIds : DriverSleepDone(id)
    \/ \E id \in TaskIds : DriverSaveDone(id)
    \/ Tick
    \/ CleanupOldTasks

UnattendedSpec == Init /\ [][UnattendedNext]_vars

\* The Reaper for the lifetime of the process: time passes, and the loop wakes
\* after every sleep and runs its cycle.  This is weak fairness of
\* CleanupOldTasks with its enabling condition written out: a cycle changes the
\* state exactly when tasks_to_remove selects a job.
FairUnattendedSpec ==
    /\ UnattendedSpec
    /\ WF_vars(Tick)
    /\ ([]<>(tasks_to_remove(tasks, now) = {}) \/ []<><<CleanupOldTasks>>_vars)

\* ================================================================== claims
Terminal == {"completed", "failed", "cancelled"}
Processing == {id \in DOMAIN tasks : tasks[id].status = "processing"}

\* C1: a driver that ran to its end with every step succeeding, and whose job
\* was not removed, leaves the record completed, at progress 100, with
\* result_path set and error_message unset.
C1_ReturnedIsCompleted ==
    \A id \in DOMAIN tasks :
        pc[id] = "returned" =>
            /\ tasks[id].status = "completed"
            /\ tasks[id].progress = Pct(100)
            /\ tasks[id].result_path # None
            /\ tasks[id].error_message = None

C1_Witness ==
    \E id \in DOMAIN tasks : pc[id] = "returned" /\ tasks[id].total_chunks = MaxChunks

\* C2: at no time do more than max_concurrent_tasks records have status
\* processing, when drivers are launched only for submissions that
\* can_start_new_task() admitted.
C2_AtMostCeilingProcessing == Cardinality(Processing) <= max_concurrent_tasks

\* C3: once remove_task(id) on a queued or processing job has returned, the
\* job's driver is over, and from then on the registry holds no record for id
\* and the driver takes no further step.
C3_AfterRemoveState ==
    \A id \in TaskIds :
        (rm[id] = "returned" /\ rm_task[id].status \in {"queued", "processing"}) =>
            /\ pc[id] \in Done \cup {"none"}
            /\ ~must_cancel[id]
            /\ id \notin DOMAIN tasks

C3_AfterRemoveStep ==
    \A id \in TaskIds :
        (rm[id] = "returned" /\ rm_task[id].status \in {"queued", "processing"}) =>
            /\ id \notin DOMAIN tasks'
            /\ pc'[id] = pc[id]
            /\ rm'[id] = "returned"

C3_RemovedDriverIsOver == []C3_AfterRemoveState /\ [][C3_AfterRemoveStep]_vars

C3_Witness ==
    \E id \in TaskIds :
        /\ rm[id] = "returned"
        /\ rm_task[id].status = "processing"
        /\ pc[id] = "cancelled"

\* C4: after remove_task(id) on a processing job has returned and every
\* worker-pool call of that job has finished, no result file of that job is on
\* disk.
C4_NoArtifactAfterRemove ==
    \A id \in TaskIds :
        (rm[id] = "returned" /\ rm_task[id].status = "processing" /\ pool[id] = "idle") =>
            PathOf(id) \notin disk

\* C5: the record is still in the registry while remove_task is cancelling the
\* job's driver and waiting for it (the record is dropped last).
C5_RecordPresentWhileCancelling ==
    \A id \in TaskIds : rm[id] = "awaiting" => id \in DOMAIN tasks


\* C6: a record's status only moves forward along queued -> processing ->
\* completed or failed, and a completed, failed or cancelled record keeps its
\* status until it is removed.  (A step of the driver runs from one suspension
\* point to the next and may take two of these transitions in a row.)
C6_Forward ==
    {<<"queued", "processing">>, <<"queued", "completed">>, <<"queued", "failed">>,
     <<"processing", "completed">>, <<"processing", "failed">>}

C6_StatusStep ==
    \A id \in DOMAIN tasks :
        id \in DOMAIN tasks' =>
            \/ tasks'[id].status = tasks[id].status
            \/ <<tasks[id].status, tasks'[id].status>> \in C6_Forward

C6_StatusMonotonic == [][C6_StatusStep]_vars

C6_Witness ==
    \E a \in DOMAIN tasks, b \in DOMAIN tasks :
        /\ tasks[a].status = "completed"
        /\ tasks[b].status = "failed"

\* C7: a completed, failed or cancelled record has exactly one of result_path
\* and error_message set, a queued or processing record has neither.
C7_ExactlyOneOutcome ==
    \A id \in DOMAIN tasks :
        LET has_path == tasks[id].result_path # None
            has_error == tasks[id].error_message # None
        IN  IF tasks[id].status \in Terminal
            THEN has_path # has_error
            ELSE ~has_path /\ ~has_error

C7_Witness ==
    \E a \in DOMAIN tasks, b \in DOMAIN tasks :
        /\ tasks[a].status = "completed" /\ tasks[a].result_path = PathOf(a)
        /\ tasks[b].status = "failed" /\ tasks[b].error_message # None
        /\ tasks[b].progress > Pct(0)

C9_CleanupStep ==
    CleanupOldTasks =>
        \A id \in DOMAIN tasks :
            IF /\ tasks[id].status \in Terminal
               /\ tasks[id].updated_at + task_timeout_hours < now
            THEN id \notin DOMAIN tasks'
            ELSE /\ id \in DOMAIN tasks'
                 /\ tasks'[id] = tasks[id]
                 /\ (PathOf(id) \in disk') = (PathOf(id) \in disk)

C10_ProgressInRange ==
    \A id \in DOMAIN tasks : Pct(0) <= tasks[id].progress /\ tasks[id].progress <= Pct(100)

C10_Witness ==
    \E a \in DOMAIN tasks, b \in DOMAIN tasks :
        /\ tasks[a].status = "queued" /\ tasks[a].progress = Pct(100)
        /\ tasks[b].current_stage = "Working" /\ tasks[b].progress = Pct(0)


\* C11: a driver that failed at any step has returned (it did not raise), and
\* its record, if it is still in the registry, has status failed.
C11_FailureIsCaught ==
    \A id \in TaskIds :
        (pc[id] = "failed" /\ id \in DOMAIN tasks) =>
            /\ tasks[id].status = "failed"
            /\ id \notin running_tasks

C11_Witness ==
    \E a \in DOMAIN tasks, b \in DOMAIN tasks :
        /\ pc[a] = "failed" /\ tasks[a].error_message = "write error"
        /\ pc[b] = "failed" /\ tasks[b].progress = Pct(5)

\* C12: a job whose driver found the engine not ready (it failed at progress 0)
\* or the voice configuration invalid (it failed at progress 2) is failed with
\* a non-empty error_message, total_chunks = 0 and completed_chunks = 0, and no
\* synthesis call was made for it.
C12_PreconditionFailure ==
    \A id \in DOMAIN tasks :
        (pc[id] = "failed" /\ tasks[id].progress \in {Pct(0), Pct(2)}) =>
            /\ tasks[id].status = "failed"
            /\ tasks[id].error_message \notin {None, ""}
            /\ tasks[id].total_chunks = 0
            /\ tasks[id].completed_chunks = 0
            /\ synth_calls[id] = 0

C12_Witness ==
    \E a \in DOMAIN tasks, b \in DOMAIN tasks :
        /\ pc[a] = "failed" /\ tasks[a].progress = Pct(0) /\ tasks[a].status = "failed"
        /\ pc[b] = "failed" /\ tasks[b].progress = Pct(2) /\ tasks[b].status = "failed"

\* C13: every record with status failed has a non-empty error_message.
C13_FailedHasMessage ==
    \A id \in DOMAIN tasks :
        tasks[id].status = "failed" => tasks[id].error_message \notin {None, ""}


\* C14: a completed record that is in the registry has result_path set and the
\* file it names is on disk; remove_task and the cleanup cycle delete the file
\* only after the record is gone.
C14_CompletedHasFile ==
    \A id \in DOMAIN tasks :
        tasks[id].status = "completed" =>
            /\ tasks[id].result_path # None
            /\ tasks[id].result_path \in disk

C14_Witness ==
    \E a \in TaskIds, b \in DOMAIN tasks :
        /\ rm[a] = "returned_cleanup"
        /\ rm_task[a].status = "completed"
        /\ PathOf(a) \notin disk
        /\ tasks[b].status = "completed"
        /\ tasks[b].result_path \in disk


\* C15: in every state, every record has completed_chunks <= total_chunks.
C15_CompletedAtMostTotal ==
    \A id \in DOMAIN tasks : tasks[id].completed_chunks <= tasks[id].total_chunks

C15_Witness ==
    \E id \in DOMAIN tasks :
        /\ tasks[id].total_chunks = MaxChunks
        /\ tasks[id].completed_chunks = MaxChunks
        /\ pc[id] = "sleep"

\* C16: a record that is completed, or whose progress is 80 or above, has
\* completed_chunks = total_chunks = N, the number of chunks of the job.
C16_AllChunksBeforeCompleted ==
    \A id \in DOMAIN tasks :
        (tasks[id].status = "completed" \/ tasks[id].progress >= Pct(80)) =>
            /\ tasks[id].total_chunks >= 1
            /\ tasks[id].completed_chunks = tasks[id].total_chunks
            /\ synth_calls[id] = tasks[id].total_chunks

C16_Witness ==
    \E a \in DOMAIN tasks, b \in DOMAIN tasks :
        /\ tasks[a].status = "completed" /\ tasks[a].completed_chunks = MaxChunks
        /\ tasks[b].status = "processing" /\ tasks[b].progress = Pct(95)


\* C17: once remove_task has popped the record of id, no step (no mutator call
\* for id in particular) puts a record for id back: id stays absent.
C17_RemovedStep ==
    \A id \in TaskIds : rm[id] # "none" => id \notin DOMAIN tasks'

C17_RemovedStaysAbsent == [][C17_RemovedStep]_vars

C17_Witness ==
    \E id \in TaskIds :
        /\ rm[id] = "returned"
        /\ missed[id]
        /\ id \notin DOMAIN tasks

\* C18: a call of update_task_progress, set_task_chunks,
\* increment_completed_chunks, set_task_completed or set_task_failed with an id
\* that is not in the registry leaves the registry, the cancellation registry
\* and the disk as they were.
C18_UnknownIdStep ==
    \A id \in TaskIds :
        (/\ id \notin DOMAIN tasks
         /\ \/ ApiUpdateProgress(id)
            \/ ApiSetChunks(id)
            \/ ApiIncrementChunks(id)
            \/ ApiSetCompleted(id)
            \/ ApiSetFailed(id))
        => /\ tasks' = tasks
           /\ running_tasks' = running_tasks
           /\ disk' = disk

C18_UnknownIdIsNoOp == [][C18_UnknownIdStep]_vars

C18_Witness ==
    \E id \in TaskIds, other \in DOMAIN tasks :
        /\ missed[id]
        /\ id \notin DOMAIN tasks
        /\ tasks[other].completed_chunks = MaxChunks


\* C19: a record with status failed has no result file on disk, whichever
\* step of its driver failed.
C19_NoArtifactWhenFailed ==
    \A id \in DOMAIN tasks : tasks[id].status = "failed" => PathOf(id) \notin disk

\* C20: a job that failed in the synthesis of chunk i of N (its progress is the
\* one written before that chunk, 15 + 65*(i-1)/N) is failed for good with
\* completed_chunks = i-1 and total_chunks = N, and exactly i synthesis calls
\* were made for it: none after the one that failed.
C20_ChunkFailureAborts ==
    \A id \in DOMAIN tasks :
        (/\ tasks[id].status = "failed"
         /\ Pct(15) <= tasks[id].progress
         /\ tasks[id].progress < Pct(80)) =>
            /\ pc[id] = "failed"
            /\ pool[id] = "idle"
            /\ tasks[id].total_chunks >= 1
            /\ tasks[id].completed_chunks < tasks[id].total_chunks
            /\ tasks[id].progress =
                 chunk_progress(tasks[id].completed_chunks, tasks[id].total_chunks)
            /\ synth_calls[id] = tasks[id].completed_chunks + 1

C20_Witness ==
    \E id \in DOMAIN tasks :
        /\ tasks[id].status = "failed"
        /\ tasks[id].total_chunks = MaxChunks
        /\ tasks[id].completed_chunks = MaxChunks - 1
        /\ synth_calls[id] = MaxChunks


\* C21: create_task hands out an id that was never handed out before (not even
\* to a job removed since) and adds exactly one record under it: queued,
\* progress 0, both chunk counters 0, result_path and error_message unset;
\* every record that was there stays as it was.
C21_CreateStep ==
    ApiCreateTask =>
        LET id == next_id'
        IN  /\ id \notin 1..next_id
            /\ id \notin DOMAIN tasks
            /\ rm[id] = "none"
            /\ DOMAIN tasks' = DOMAIN tasks \cup {id}
            /\ tasks'[id].status = "queued"
            /\ tasks'[id].progress = Pct(0)
            /\ tasks'[id].total_chunks = 0
            /\ tasks'[id].completed_chunks = 0
            /\ tasks'[id].result_path = None
            /\ tasks'[id].error_message = None
            /\ \A k \in DOMAIN tasks : tasks'[k] = tasks[k]

C21_CreateAddsOneFreshRecord == [][C21_CreateStep]_vars

C21_Witness ==
    \E id \in DOMAIN tasks, other \in TaskIds :
        /\ other < id
        /\ rm[other] # "none"
        /\ tasks[id] = NewTask(now)
        /\ now > 0


\* C22: every step that changes a record sets the record's updated_at to the
\* time of the step.
C22_MutationStep ==
    \A id \in DOMAIN tasks :
        (id \in DOMAIN tasks' /\ tasks'[id] # tasks[id]) => tasks'[id].updated_at = now

C22_EveryMutationStampsUpdatedAt == [][C22_MutationStep]_vars


\* C23: result_path is assigned only in the step that changes a record's status
\* to completed, error_message only in the step that changes it to failed; each
\* is assigned at most once and does not change afterwards.
C23_OutcomeStep ==
    \A id \in DOMAIN tasks :
        id \in DOMAIN tasks' =>
            /\ tasks'[id].result_path # tasks[id].result_path =>
                 /\ tasks[id].result_path = None
                 /\ tasks[id].status # "completed"
                 /\ tasks'[id].status = "completed"
            /\ tasks'[id].error_message # tasks[id].error_message =>
                 /\ tasks[id].error_message = None
                 /\ tasks[id].status # "failed"
                 /\ tasks'[id].status = "failed"

C23_OutcomeAssignedOnce == [][C23_OutcomeStep]_vars

C23_Witness ==
    \E a \in DOMAIN tasks, b \in DOMAIN tasks :
        /\ tasks[a].result_path = PathOf(a) /\ pc[a] = "returned"
        /\ tasks[b].error_message = "Audio concatenation error" /\ pc[b] = "failed"


\* C24: set_task_failed sets status failed, current_stage, error_message and
\* updated_at and leaves progress, both chunk counters and result_path as they
\* were; set_task_completed sets status completed, progress 100, current_stage,
\* result_path and updated_at and leaves both chunk counters and error_message
\* as they were.
C24_FrameStep ==
    \A id \in DOMAIN tasks :
        /\ ApiSetFailed(id) =>
             \E message \in MessageArgs :
                tasks' = [tasks EXCEPT ![id] =
                            [@ EXCEPT !.status = "failed",
                                      !.current_stage = "Failed",
                                      !.error_message = message,
                                      !.updated_at = now]]
        /\ ApiSetCompleted(id) =>
             tasks' = [tasks EXCEPT ![id] =
                         [@ EXCEPT !.status = "completed",
                                   !.progress = Pct(100),
                                   !.current_stage = "Completed",
                                   !.result_path = PathOf(id),
                                   !.updated_at = now]]

C24_TerminalSettersFrame == [][C24_FrameStep]_vars

C24_Witness ==
    \E a \in DOMAIN tasks, b \in DOMAIN tasks :
        /\ tasks[a].status = "failed" /\ tasks[a].progress = Pct(50)
        /\ tasks[a].total_chunks = MaxChunks /\ tasks[a].completed_chunks = 1
        /\ tasks[b].status = "completed" /\ tasks[b].total_chunks = 1
        /\ tasks[b].error_message = "error"


\* C25: the value a caller got from get_task or get_all_tasks is a snapshot:
\* what the caller holds keeps the field values it had at the call, whatever
\* the store does to the record afterwards.
C25_HeldValueIsSnapshot ==
    \A id \in DOMAIN held : id \in DOMAIN tasks => HeldObject(id) = held[id]


\* C26: can_start_new_task() is true exactly when fewer than
\* max_concurrent_tasks records have status processing (there is no set of
\* max_concurrent_tasks processing records); create_task does not look at it:
\* it can be called whatever the number of processing records is, and it
\* inserts a queued record also when that number is at or above the ceiling.
C26_AtCeiling ==
    \E S \in SUBSET DOMAIN tasks :
        /\ Cardinality(S) = max_concurrent_tasks
        /\ \A id \in S : tasks[id].status = "processing"

C26_CreateStep ==
    ApiCreateTask =>
        /\ next_id + 1 \notin DOMAIN tasks
        /\ next_id + 1 \in DOMAIN tasks'
        /\ tasks'[next_id + 1].status = "queued"
        /\ \A id \in DOMAIN tasks : id \in DOMAIN tasks' /\ tasks'[id] = tasks[id]

C26_CeilingIsAdvisory ==
    /\ [](can_start_new_task(tasks) <=> ~C26_AtCeiling)
    /\ [](next_id < MaxTasks => ENABLED ApiCreateTask)
    /\ [][C26_CreateStep]_vars

\* A record created at a moment when the ceiling was reached: the processing
\* record was last written before the present time, the queued one at it.
C26_Witness ==
    /\ ~can_start_new_task(tasks)
    /\ \E a \in DOMAIN tasks, b \in DOMAIN tasks :
        /\ tasks[a].status = "processing" /\ tasks[a].updated_at < now
        /\ tasks[b].status = "queued" /\ tasks[b].current_stage = "Task created"
        /\ tasks[b].updated_at = now


\* C28: remove_task(id) is on its way to `return True` exactly when it found a
\* record for id at the call: the record is then out of the store and the call
\* awaits the driver or has returned True.  A call that finds no record returns
\* False: it cancels no driver, deletes no file, and leaves the store, the
\* cancellation registry and the earlier calls for id as they were.
C28_RemoveStep ==
    \A id \in TaskIds :
        RemoveCall(id) =>
            IF id \in DOMAIN tasks
            THEN /\ rm_found'[id] = "yes"
                 /\ id \notin DOMAIN tasks'
                 /\ rm'[id] \in {"awaiting", "returned"}
            ELSE /\ rm_found'[id] = "no"
                 /\ UNCHANGED <<tasks, running_tasks, disk, must_cancel, pool, pc, rm, rm_task>>

C30_RemovedCompletedLeavesNothing ==
    \A id \in TaskIds :
        (rm[id] \in {"returned", "returned_cleanup"} /\ rm_task[id].status = "completed") =>
            /\ rm_task[id].result_path \notin disk
            /\ id \notin running_tasks


\* C27: cancelling the Reaper stops its loop and harms no job.  A cleanup
\* cycle is never suspended between dropping a record and deleting its file,
\* so the cancellation reaches the loop in its sleep; the cancellation itself
\* changes neither the store, the disk nor the registry, and it adds no job
\* whose record is gone while its file is on disk; once it is requested no
\* cleanup cycle removes anything any more and the loop ends stopped for good.
C27_RecordGoneFileKept ==
    {id \in 1..next_id : id \notin DOMAIN tasks /\ PathOf(id) \in disk}

C27_CycleNotSuspended ==
    /\ cleanup_todo = <<>>
    /\ \A id \in TaskIds : rm[id] # "awaiting_cleanup"

C27_CancelStep ==
    /\ reaper' # reaper =>
         /\ UNCHANGED <<tasks, disk, running_tasks, rm, rm_task, must_cancel, pool, pc>>
         /\ C27_RecordGoneFileKept' = C27_RecordGoneFileKept
    /\ reaper = "cancel_requested" => reaper' \in {"cancel_requested", "stopped"}
    /\ reaper = "stopped" => reaper' = "stopped"
    /\ reaper # "sleeping" =>
         \A id \in TaskIds : rm'[id] = "returned_cleanup" => rm[id] = "returned_cleanup"

C27_ReaperCancelIsHarmless ==
    /\ []C27_CycleNotSuspended
    /\ [][C27_CancelStep]_vars

\* The Reaper was stopped after a cycle that removed one completed job, record
\* and file, while another completed job is in the store with its file.
C27_Witness ==
    /\ reaper = "stopped"
    /\ \E a \in TaskIds, b \in DOMAIN tasks :
        /\ rm[a] = "returned_cleanup" /\ rm_task[a].status = "completed"
        /\ a \notin DOMAIN tasks /\ PathOf(a) \notin disk
        /\ tasks[b].status = "completed" /\ PathOf(b) \in disk


\* C31: within one job the engine is called on the chunks in chunk order, one
\* call at a time.  While the driver is live the waveforms accumulated are
\* those of chunks 0, 1, 2, ... in that order, and completed_chunks equals
\* their number; the chunk in synthesis is the next one, and all of them are
\* accumulated when the audio is concatenated.  A call for a further chunk is
\* made only after the call before it returned a waveform and was counted, so
\* the worker pool holds one call of the job (none once removal cancelled it).
C31_Live == {id \in TaskIds : pc[id] \in {"synth", "sleep", "save"}}

C31_InChunkOrder ==
    \A id \in C31_Live :
        /\ \A k \in 1..Len(segments[id]) : segments[id][k] = k - 1
        /\ id \in DOMAIN tasks => tasks[id].completed_chunks = Len(segments[id])
        /\ pc[id] = "synth" =>
             /\ idx[id] = Len(segments[id])
             /\ synth_calls[id] = idx[id] + 1
             /\ ~must_cancel[id] => pool[id] = "synth"
        /\ pc[id] = "sleep" => Len(segments[id]) = idx[id] + 1 /\ pool[id] = "idle"
        /\ pc[id] = "save" => Len(segments[id]) = chunks[id]

C31_CallStep ==
    \A id \in TaskIds :
        (synth_calls'[id] = synth_calls[id] + 1 /\ synth_calls[id] > 0) =>
            /\ pc[id] = "sleep"
            /\ Len(segments[id]) = synth_calls[id]
            /\ id \in DOMAIN tasks => tasks[id].completed_chunks = synth_calls[id]
            /\ idx'[id] = synth_calls[id]

C31_ChunksInOrderOneAtATime ==
    /\ []C31_InChunkOrder
    /\ [][C31_CallStep]_vars

\* The last chunk of a MaxChunks-chunk job is in synthesis, the chunks before it
\* accumulated and counted.
C31_Witness ==
    \E id \in DOMAIN tasks :
        /\ pc[id] = "synth"
        /\ chunks[id] = MaxChunks
        /\ idx[id] = MaxChunks - 1
        /\ Len(segments[id]) = MaxChunks - 1
        /\ tasks[id].completed_chunks = MaxChunks - 1


\* C32: during a driver run the stored progress never decreases.  The values
\* written are 0, 2, 5, 10, then 15 + 65*i/N for chunk i = 0..N-1, each in
\* [15, 80) and strictly increasing in i, then 80, 85, 90, 95, 100; the step
\* in which the job fails leaves progress at the last value written before
\* the failure (0, 2 or 5 in the validations, the chunk's value in the
\* synthesis, 80 or 90 in concatenation and encoding, 95 in the save).
C32_ChunkValues ==
    {chunk_progress(i, n) : i \in 0..(MaxChunks - 1), n \in 1..MaxChunks}

C32_Written ==
    {Pct(0), Pct(2), Pct(5), Pct(10), Pct(80), Pct(85), Pct(90), Pct(95), Pct(100)}
        \cup C32_ChunkValues

C32_Band ==
    \A n \in 1..MaxChunks : \A i \in 0..(n - 1) :
        /\ Pct(15) <= chunk_progress(i, n)
        /\ chunk_progress(i, n) < Pct(80)
        /\ i + 1 < n => chunk_progress(i, n) < chunk_progress(i + 1, n)

C32_ProgressStep ==
    \A id \in DOMAIN tasks \cap DOMAIN tasks' :
        /\ tasks'[id].progress >= tasks[id].progress
        /\ tasks'[id].progress \in C32_Written
        /\ (tasks'[id].status = "failed" /\ tasks[id].status # "failed") =>
             CASE pc[id] = "ready" -> tasks'[id].progress \in {Pct(0), Pct(2), Pct(5)}
               [] pc[id] = "synth" -> /\ tasks'[id].progress = tasks[id].progress
                                      /\ tasks[id].progress = chunk_progress(idx[id], chunks[id])
               [] pc[id] = "sleep" -> tasks'[id].progress \in {Pct(80), Pct(90)}
               [] pc[id] = "save" -> /\ tasks'[id].progress = tasks[id].progress
                                     /\ tasks[id].progress = Pct(95)
               [] OTHER -> FALSE

C32_ProgressNeverDecreases ==
    /\ []C32_Band
    /\ [][C32_ProgressStep]_vars

\* One job failed in the encoding with progress 90; another is in the synthesis
\* of its last chunk with that chunk's progress.
C32_Witness ==
    \E a \in DOMAIN tasks, b \in DOMAIN tasks :
        /\ tasks[a].status = "failed" /\ tasks[a].progress = Pct(90)
        /\ pc[b] = "synth" /\ chunks[b] = MaxChunks /\ idx[b] = MaxChunks - 1
        /\ tasks[b].progress = chunk_progress(MaxChunks - 1, MaxChunks)


\* C33: a driver whose chunker returns zero chunks fails the job in its first
\* step, with total_chunks left at 0, and a job that failed for want of chunks
\* stays failed with total_chunks = 0 and no synthesis call ever made for it.
C33_NoChunks == "Text processing resulted in no usable chunks"

C33_ZeroChunksFails ==
    /\ \A id \in DOMAIN tasks :
         pc[id] = "ready" =>
             LET r == driver_start(tasks, id, TRUE, TRUE, 0, now)
             IN  /\ r.pc = "failed"
                 /\ r.tasks[id].status = "failed"
                 /\ r.tasks[id].error_message = C33_NoChunks
                 /\ r.tasks[id].total_chunks = 0
    /\ \A id \in DOMAIN tasks :
         tasks[id].error_message = C33_NoChunks =>
             /\ tasks[id].status = "failed"
             /\ pc[id] = "failed"
             /\ tasks[id].total_chunks = 0
             /\ tasks[id].completed_chunks = 0
             /\ synth_calls[id] = 0
             /\ pool[id] = "idle"

\* One job failed for want of chunks; the engine is at work for another.
C33_Witness ==
    \E a \in DOMAIN tasks, b \in DOMAIN tasks :
        /\ tasks[a].error_message = C33_NoChunks
        /\ tasks[a].progress = Pct(5)
        /\ synth_calls[b] > 0 /\ pool[b] = "synth"


\* C34: with the Reaper running, every job that is completed or failed and was
\* last updated long enough ago for the retention window to pass is eventually
\* evicted without any caller's doing: its record is dropped and no file of it
\* is left on disk.
C34_TerminalEventuallyEvicted ==
    \A id \in TaskIds :
        (/\ id \in DOMAIN tasks
         /\ tasks[id].status \in {"completed", "failed"}
         /\ tasks[id].updated_at < MaxTime - task_timeout_hours)
            ~> (id \notin DOMAIN tasks /\ PathOf(id) \notin disk)


\* C35: the Reaper loop keeps running after a cleanup cycle raised an error:
\* the loop is back in its sleep, from which the next cycle starts (no removal
\* of a cycle is left pending), and the jobs the failed cycle did not get to
\* are still in the store for it.  The loop stops only by being cancelled.
C35_LoopStep ==
    /\ ReaperCycleRaises =>
         /\ reaper' = "sleeping"
         /\ cleanup_todo' = <<>>
         /\ \A id \in TaskIds : rm'[id] # "awaiting_cleanup"
         /\ \A id \in DOMAIN tasks :
              id \notin tasks_to_remove(tasks, now) => id \in DOMAIN tasks'
    /\ reaper' # reaper => reaper \in {"sleeping", "cancel_requested"}
    /\ (reaper' = "stopped" /\ reaper # "stopped") => reaper = "cancel_requested"
    /\ (reaper' = "cancel_requested" /\ reaper # "cancel_requested") => CancelReaper

C35_LoopSurvivesErrors == [][C35_LoopStep]_vars

\* A cycle raised on the first job (its record is gone, its file is not), and
\* a cycle after it removed the second job, record and file.
C35_Witness ==
    /\ reaper = "sleeping"
    /\ rm[1] = "raised_cleanup" /\ PathOf(1) \in disk
    /\ rm[2] = "returned_cleanup" /\ rm_task[2].status = "completed" /\ PathOf(2) \notin disk


\* C36: a record has status processing only while its driver is live: the
\* driver has started and has neither returned, failed nor been cancelled.
C36_ProcessingHasLiveDriver ==
    \A id \in DOMAIN tasks :
        tasks[id].status = "processing" => pc[id] \in {"synth", "sleep", "save"}


\* C38: when shutdown() has returned the Reaper loop has stopped and every
\* handle in the cancellation registry is done.  No step of shutdown() and no
\* cancellation of a driver changes the store: no record is changed or
\* removed, the records of the cancelled drivers included.
C38_ShutdownStep ==
    /\ shutdown' # shutdown => tasks' = tasks
    /\ \A id \in TaskIds :
         (pc'[id] = "cancelled" /\ pc[id] # "cancelled") => tasks' = tasks

C38_Returned ==
    shutdown = "returned" =>
        /\ reaper = "stopped"
        /\ \A id \in running_tasks : pc[id] \in Done

C37_Started == {"awaiting", "returned", "awaiting_cleanup", "returned_cleanup"}

C37_RaceStep ==
    \A id \in TaskIds :
        /\ (id \in DOMAIN tasks /\ id \notin DOMAIN tasks') =>
             /\ rm[id] = "none"
             /\ rm'[id] \in C37_Started
        /\ (rm[id] # "none" /\ RemoveCall(id)) =>
             /\ rm_found'[id] = "no"
             /\ UNCHANGED <<tasks, running_tasks, disk, must_cancel, pool, pc, rm, rm_task>>
        /\ (PathOf(id) \in disk /\ PathOf(id) \notin disk') =>
             /\ rm[id] \in {"none", "awaiting", "awaiting_cleanup"}
             /\ rm'[id] \in {"returned", "returned_cleanup"}
        /\ (must_cancel'[id] /\ ~must_cancel[id]) =>
             /\ rm[id] = "none"
             /\ rm'[id] \in {"awaiting", "awaiting_cleanup"}
        /\ (rm[id] \in {"awaiting", "awaiting_cleanup"} /\ rm'[id] # rm[id]) =>
             rm'[id] \in {"returned", "returned_cleanup"}
        /\ rm[id] \in {"returned", "returned_cleanup"} => rm'[id] = rm[id]

C39_Alive == {"sleeping", "cancel_requested"}

C39_LoopsAlive ==
    Cardinality({k \in 1..Len(old_loops) : old_loops[k] \in C39_Alive})
        + (IF reaper \in C39_Alive THEN 1 ELSE 0)

C39_StartStep ==
    EnsureCleanupTaskStarted =>
        IF reaper \in C39_Alive
        THEN reaper' = reaper /\ old_loops' = old_loops
        ELSE reaper' \in {reaper, "sleeping"}

C39_AtMostOneLoop ==
    /\ [](C39_LoopsAlive <= 1)
    /\ [][C39_StartStep]_vars

\* The loop was cancelled, has stopped and was started again; the new loop is
\* alive and further calls of ensure_cleanup_task_started can be made.
C39_Witness ==
    /\ Len(old_loops) >= 1
    /\ Len(old_loops) < MaxRestarts
    /\ reaper = "sleeping"

====
